---- MODULE Spec2Model ----
(***************************************************************************)
(* Model of the Gemini MCP stdio server: the line handler and dispatcher   *)
(* (src/enhanced-stdio-server.ts), the rate limiter                        *)
(* (src/utils/rateLimiter.ts), the envelope validator                      *)
(* (src/utils/validation.ts) and the retry helper (src/utils/errors.ts).   *)
(*                                                                         *)
(* JavaScript values are encoded as strings.  A TLA+ string stands for the *)
(* JavaScript string with the same characters, except for the bracketed    *)
(* sentinels below, which stand for values that are not strings.           *)
(***************************************************************************)
EXTENDS Integers, Sequences, FiniteSets, TLC

VARIABLES
    now,              \* Date.now(), in milliseconds
    rateLimitEnabled, \* config.rateLimitEnabled
    maxRequests,      \* RateLimiter.maxRequests
    requests,         \* RateLimiter.requests : Map<string, RateLimitEntry>
    lastCheck,        \* observation of the latest checkLimit call
    window,           \* observation: per key, the window the calls fall in
    conversations,    \* EnhancedStdioMCPServer.conversations
    pending,          \* handleRequest invocations suspended at an await
    output,           \* what sendResponse wrote to stdout, in order
    remoteCalls,      \* requests handed to the remote service, in order
    received,         \* observation: one summary per input line, in order
    retry,            \* the activation record of withRetry
    call,             \* one call of a utility function: its argument and result
    unswept,          \* the map of a twin limiter whose sweep never runs
    lastUsage,        \* observation of the latest getUsage call, on both maps
    accepted          \* observation: per key, the calls accepted at the latest instants

limiterVars == <<now, rateLimitEnabled, maxRequests, requests>>
serverVars  == <<conversations, pending, output, remoteCalls, received>>
twinVars    == <<unswept, lastUsage>>
vars == <<now, rateLimitEnabled, maxRequests, requests, lastCheck, window,
          conversations, pending, output, remoteCalls, received, retry, call,
          unswept, lastUsage, accepted>>

----------------------------------------------------------------------------
(* Bounds of the model *)

MaxTicks == 4
ServerMaxTicks == 2
MaxReq == 2
MaxLines == 3
MaxAttemptsBound == 3
MaxDelayAttempt == 10
MaxTextLen == 2

(* Program constants *)

DefaultBaseDelay == 1000

\* the granularity of the clock, and the limiter's windowMs in terms of it
TickMs == 750
WindowMs == 2 * TickMs

----------------------------------------------------------------------------
(* JavaScript values *)

UNDEF == "<undefined>"
NULL == "<null>"
ZERO == "<0>"
SEVEN == "<7>"
NUM == "<number>"

\* typeof v === 'string'
IsString(v) == v \notin {UNDEF, NULL, ZERO, SEVEN, NUM}

\* ToBoolean(v): undefined, null, 0 and '' are falsy
Truthy(v) == v \notin {UNDEF, NULL, ZERO, ""}

Last(s) == s[Len(s)]

MapSet(m, k, v) == [x \in (DOMAIN m) \cup {k} |-> IF x = k THEN v ELSE m[x]]

MapDelete(m, k) == [x \in (DOMAIN m) \ {k} |-> m[x]]

EmptyMap == [x \in {} |-> 0]

\* Math.min(a, b)
Min(a, b) == IF a <= b THEN a ELSE b

\* Math.ceil(a / b) for a >= 0, b > 0
Ceil(a, b) == (a + b - 1) \div b

RECURSIVE Pow2(_)
Pow2(n) == IF n = 0 THEN 1 ELSE 2 * Pow2(n - 1)

----------------------------------------------------------------------------
(* RateLimiter (src/utils/rateLimiter.ts) *)

Identifiers == {"default", "other"}

NoWindow == [end |-> -1, calls |-> 0]

NoCheck == [key |-> "", threw |-> FALSE, resetIn |-> 0, ordinal |-> 0,
            at |-> 0, hadEntry |-> FALSE, before |-> [count |-> 0, resetTime |-> 0],
            hasEntry |-> FALSE, after |-> [count |-> 0, resetTime |-> 0]]

\* the entry written for a new window: { count: 1, resetTime: now + windowMs }
FreshEntry(t) == [count |-> 1, resetTime |-> t + WindowMs]

\* mutant: the window is taken to end one instant late
WindowExpired_Strict(entry, t) == t > entry.resetTime

\* now >= entry.resetTime
WindowExpired(entry, t) == t >= entry.resetTime

\* mutant: one call too many is let through
LimitReached_Strict(entry, maxReq) == entry.count > maxReq

\* entry.count >= this.maxRequests
LimitReached(entry, maxReq) == entry.count >= maxReq

\* mutant: the seconds are rounded down
ResetIn_Floor(entry, t) == (entry.resetTime - t) \div 1000

\* Math.ceil((entry.resetTime - now) / 1000)
ResetIn(entry, t) == Ceil(entry.resetTime - t, 1000)

\* mutant: config.rateLimitEnabled is not looked at
checkLimit_AlwaysOn(reqs, identifier, t, enabled, maxReq) ==
    IF identifier \notin DOMAIN reqs
    THEN [threw |-> FALSE, resetIn |-> 0,
          requests |-> MapSet(reqs, identifier, FreshEntry(t))]
    ELSE IF WindowExpired(reqs[identifier], t)
    THEN [threw |-> FALSE, resetIn |-> 0,
          requests |-> MapSet(reqs, identifier, FreshEntry(t))]
    ELSE IF LimitReached(reqs[identifier], maxReq)
    THEN [threw |-> TRUE, resetIn |-> ResetIn(reqs[identifier], t),
          requests |-> reqs]
    ELSE [threw |-> FALSE, resetIn |-> 0,
          requests |-> MapSet(reqs, identifier,
                         [reqs[identifier] EXCEPT !.count = @ + 1])]

\* mutant: a rejected call is counted and starts the window anew
checkLimit_RejectionCounts(reqs, identifier, t, enabled, maxReq) ==
    IF ~enabled
    THEN [threw |-> FALSE, resetIn |-> 0, requests |-> reqs]
    ELSE IF identifier \notin DOMAIN reqs
    THEN [threw |-> FALSE, resetIn |-> 0,
          requests |-> MapSet(reqs, identifier, FreshEntry(t))]
    ELSE IF WindowExpired(reqs[identifier], t)
    THEN [threw |-> FALSE, resetIn |-> 0,
          requests |-> MapSet(reqs, identifier, FreshEntry(t))]
    ELSE IF LimitReached(reqs[identifier], maxReq)
    THEN [threw |-> TRUE, resetIn |-> ResetIn(reqs[identifier], t),
          requests |-> MapSet(reqs, identifier,
                         [count |-> reqs[identifier].count + 1,
                          resetTime |-> t + WindowMs])]
    ELSE [threw |-> FALSE, resetIn |-> 0,
          requests |-> MapSet(reqs, identifier,
                         [reqs[identifier] EXCEPT !.count = @ + 1])]

\* checkLimit(identifier): threw is TRUE when RateLimitError is thrown,
\* requests is the map the call leaves behind.
checkLimit(reqs, identifier, t, enabled, maxReq) ==
    IF ~enabled
    THEN [threw |-> FALSE, resetIn |-> 0, requests |-> reqs]
    ELSE IF identifier \notin DOMAIN reqs
    THEN [threw |-> FALSE, resetIn |-> 0,
          requests |-> MapSet(reqs, identifier, FreshEntry(t))]
    ELSE IF WindowExpired(reqs[identifier], t)
    THEN [threw |-> FALSE, resetIn |-> 0,
          requests |-> MapSet(reqs, identifier, FreshEntry(t))]
    ELSE IF LimitReached(reqs[identifier], maxReq)
    THEN [threw |-> TRUE, resetIn |-> ResetIn(reqs[identifier], t),
          requests |-> reqs]
    ELSE [threw |-> FALSE, resetIn |-> 0,
          requests |-> MapSet(reqs, identifier,
                         [reqs[identifier] EXCEPT !.count = @ + 1])]

\* getUsage(identifier)
getUsage(reqs, identifier, t, maxReq) ==
    IF identifier \notin DOMAIN reqs \/ t >= reqs[identifier].resetTime
    THEN [count |-> 0, limit |-> maxReq, resetTime |-> t + WindowMs]
    ELSE [count |-> reqs[identifier].count, limit |-> maxReq,
          resetTime |-> reqs[identifier].resetTime]

\* mutant: the sweep drops every entry
cleanup_All(reqs, t) == EmptyMap

\* cleanup(): delete every entry with now >= entry.resetTime
cleanup(reqs, t) ==
    [k \in {x \in DOMAIN reqs : ~(t >= reqs[x].resetTime)} |-> reqs[k]]

\* reset(identifier)
reset(reqs, identifier) == MapDelete(reqs, identifier)

EntryOr(reqs, k) == IF k \in DOMAIN reqs THEN reqs[k] ELSE [count |-> 0, resetTime |-> 0]

\* The window a call at time t falls in, as the caller sees it: a call opens
\* a window when the key has none or the previous one has ended.
ObserveCall(w, t) ==
    IF w.end = -1 \/ t >= w.end
    THEN [end |-> t + WindowMs, calls |-> 1]
    ELSE [w EXCEPT !.calls = @ + 1]

\* the clock instants that one interval of windowMs milliseconds holds
WindowTicks == WindowMs \div TickMs

\* per key, the number of calls accepted at the current instant (first) and
\* at the instants before it that lie less than windowMs back
NoneAccepted == [i \in 1..WindowTicks |-> 0]

AcceptedInit == accepted = [k \in Identifiers |-> NoneAccepted]

NoUsage == [key |-> "", at |-> 0,
            usage |-> [count |-> 0, limit |-> 0, resetTime |-> 0],
            twin |-> [count |-> 0, limit |-> 0, resetTime |-> 0]]

\* The twin limiter receives the calls made in the specification of the
\* rate limiter on its own; its map is never swept.
TwinInit ==
    /\ unswept = EmptyMap
    /\ lastUsage = NoUsage

LimiterInit ==
    /\ now = 0
    /\ rateLimitEnabled \in BOOLEAN
    /\ maxRequests \in 0..MaxReq
    /\ requests = EmptyMap
    /\ lastCheck = NoCheck
    /\ window = [k \in Identifiers |-> NoWindow]
    /\ TwinInit
    /\ AcceptedInit

CheckLimit(k) ==
    /\ ObserveCall(window[k], now).calls <= MaxReq + 2
    /\ LET r == checkLimit(requests, k, now, rateLimitEnabled, maxRequests)
           w == ObserveCall(window[k], now)
       IN /\ requests' = r.requests
          /\ window' = [window EXCEPT ![k] = w]
          /\ lastCheck' = [key |-> k, threw |-> r.threw, resetIn |-> r.resetIn,
                           ordinal |-> w.calls, at |-> now,
                           hadEntry |-> k \in DOMAIN requests,
                           before |-> EntryOr(requests, k),
                           hasEntry |-> k \in DOMAIN r.requests,
                           after |-> EntryOr(r.requests, k)]
    /\ unswept' = checkLimit(unswept, k, now, rateLimitEnabled, maxRequests).requests
    /\ accepted' = IF checkLimit(requests, k, now, rateLimitEnabled, maxRequests).threw
                   THEN accepted
                   ELSE [accepted EXCEPT ![k][1] = @ + 1]
    /\ UNCHANGED <<now, rateLimitEnabled, maxRequests, serverVars, retry, call,
                   lastUsage>>

GetUsage(k) ==
    /\ lastUsage' = [key |-> k, at |-> now,
                     usage |-> getUsage(requests, k, now, maxRequests),
                     twin |-> getUsage(unswept, k, now, maxRequests)]
    /\ lastUsage' # lastUsage
    /\ UNCHANGED <<limiterVars, lastCheck, window, serverVars, retry, call, unswept,
                   accepted>>

Cleanup ==
    /\ requests' = cleanup(requests, now)
    /\ requests' # requests
    /\ UNCHANGED <<now, rateLimitEnabled, maxRequests, lastCheck, window,
                   serverVars, retry, call, twinVars, accepted>>

Reset(k) ==
    /\ k \in DOMAIN requests \cup DOMAIN unswept
    /\ requests' = reset(requests, k)
    /\ unswept' = reset(unswept, k)
    /\ window' = [window EXCEPT ![k] = NoWindow]
    /\ accepted' = [accepted EXCEPT ![k] = NoneAccepted]
    /\ UNCHANGED <<now, rateLimitEnabled, maxRequests, lastCheck,
                   serverVars, retry, call, lastUsage>>

\* the clock advances by one tick, up to the given number of ticks
Tick(maxTicks) ==
    /\ now + TickMs <= maxTicks * TickMs
    /\ now' = now + TickMs
    /\ accepted' = [k \in Identifiers |->
                       <<0>> \o SubSeq(accepted[k], 1, WindowTicks - 1)]
    /\ UNCHANGED <<rateLimitEnabled, maxRequests, requests, lastCheck, window,
                   serverVars, retry, call, twinVars>>

----------------------------------------------------------------------------
(* ErrorHandler.isRetryableError and withRetry (src/utils/errors.ts) *)

NoCode == -1

\* an error value: its class, and the status and code of its originalError
Err(cls, status, code) == [cls |-> cls, status |-> status, code |-> code]

NoError == Err("undefined", UNDEF, NoCode)
ErrUnavailable == Err("GeminiAPIError", "UNAVAILABLE", NoCode)
ErrTooMany == Err("GeminiAPIError", UNDEF, 429)
ErrInvalidArgument == Err("GeminiAPIError", "INVALID_ARGUMENT", 400)
ErrValidation == Err("ValidationError", UNDEF, NoCode)

Errors == {ErrUnavailable, ErrTooMany, ErrInvalidArgument, ErrValidation}

\* mutant: the numeric codes are not looked at
isRetryableError_StatusOnly(error) ==
    IF error.cls = "GeminiAPIError"
    THEN \/ error.status = "UNAVAILABLE"
         \/ error.status = "RESOURCE_EXHAUSTED"
         \/ error.status = "INTERNAL"
    ELSE FALSE

\* error instanceof GeminiAPIError, then the status and the code of
\* error.originalError
isRetryableError(error) ==
    IF error.cls = "GeminiAPIError"
    THEN \/ error.status = "UNAVAILABLE"
         \/ error.status = "RESOURCE_EXHAUSTED"
         \/ error.status = "INTERNAL"
         \/ error.code = 503
         \/ error.code = 429
    ELSE FALSE

\* the ceiling of ErrorHandler.getRetryDelay
RetryDelayCeiling == 16000

\* mutant: exponential backoff without the ceiling
getRetryDelay_NoCap(attempt) == 1000 * Pow2(attempt)

\* Math.min(1000 * Math.pow(2, attempt), 16000)
getRetryDelay(attempt) == Min(1000 * Pow2(attempt), RetryDelayCeiling)

\* what one invocation of the operation settles to
Resolves(v) == [ok |-> TRUE, value |-> v, error |-> NoError]
Rejects(e) == [ok |-> FALSE, value |-> UNDEF, error |-> e]

Outcomes == {Resolves("success")} \cup {Rejects(e) : e \in Errors}

ScriptLen == MaxAttemptsBound + 1

BaseDelays == {DefaultBaseDelay, 10000}

\* the i-th invocation of the operation (1-based)
OperationOutcome(script, i) ==
    IF i \in DOMAIN script THEN script[i] ELSE Rejects(ErrValidation)

\* mutant: the loop stops one attempt early
LoopContinues_Short(attempt, maxAttempts) == attempt < maxAttempts - 1

\* for (let attempt = 0; attempt < maxAttempts; attempt++)
LoopContinues(attempt, maxAttempts) == attempt < maxAttempts

\* mutant: every error is retried until the attempts run out
GivesUp_LastAttemptOnly(attempt, maxAttempts, error) == attempt = maxAttempts - 1

\* mutant: the error is rethrown one attempt before the last
GivesUp_OneEarly(attempt, maxAttempts, error) ==
    attempt >= maxAttempts - 2 \/ ~isRetryableError(error)

\* attempt === maxAttempts - 1 || !ErrorHandler.isRetryableError(error)
GivesUp(attempt, maxAttempts, error) ==
    attempt = maxAttempts - 1 \/ ~isRetryableError(error)

\* baseDelay * Math.pow(2, attempt)
LoopDelay(baseDelay, attempt) == baseDelay * Pow2(attempt)

RetryIdle == [pc |-> "idle", maxAttempts |-> 0, baseDelay |-> 0,
              script |-> <<>>, attempt |-> 0, invocations |-> 0,
              lastError |-> NoError, result |-> UNDEF, thrown |-> NoError,
              delays |-> <<>>]

RetryInit ==
    \E m \in 0..MaxAttemptsBound, b \in BaseDelays,
       sc \in [1..ScriptLen -> Outcomes] :
        retry = [RetryIdle EXCEPT !.pc = "loop", !.maxAttempts = m,
                                  !.baseDelay = b, !.script = sc]

\* the loop test, then either operation() is called or the loop is left and
\* lastError is thrown
RetryLoop ==
    /\ retry.pc = "loop"
    /\ IF LoopContinues(retry.attempt, retry.maxAttempts)
       THEN retry' = [retry EXCEPT !.pc = "awaiting", !.invocations = @ + 1]
       ELSE retry' = [retry EXCEPT !.pc = "rejected", !.thrown = retry.lastError]
    /\ UNCHANGED <<limiterVars, lastCheck, window, serverVars, call, twinVars, accepted>>

\* the awaited promise settles: return, rethrow, or schedule the backoff
RetrySettle ==
    /\ retry.pc = "awaiting"
    /\ LET o == OperationOutcome(retry.script, retry.invocations)
       IN IF o.ok
          THEN retry' = [retry EXCEPT !.pc = "resolved", !.result = o.value]
          ELSE IF GivesUp(retry.attempt, retry.maxAttempts, o.error)
          THEN retry' = [retry EXCEPT !.pc = "rejected", !.lastError = o.error,
                                      !.thrown = o.error]
          ELSE retry' = [retry EXCEPT !.pc = "sleeping", !.lastError = o.error,
                            !.delays = Append(@, LoopDelay(retry.baseDelay, retry.attempt))]
    /\ UNCHANGED <<limiterVars, lastCheck, window, serverVars, call, twinVars, accepted>>

\* mutant: the attempt counter is not advanced
RetryWake_SameAttempt ==
    /\ retry.pc = "sleeping"
    /\ retry' = [retry EXCEPT !.pc = "loop"]
    /\ UNCHANGED <<limiterVars, lastCheck, window, serverVars, call, twinVars, accepted>>

\* the backoff timer fires; attempt++
RetryWake ==
    /\ retry.pc = "sleeping"
    /\ retry' = [retry EXCEPT !.pc = "loop", !.attempt = @ + 1]
    /\ UNCHANGED <<limiterVars, lastCheck, window, serverVars, call, twinVars, accepted>>

----------------------------------------------------------------------------
(* Validator (src/utils/validation.ts) *)

\* Texts are sequences of character codes; UndefText stands for undefined.
UndefText == <<-1>>
TextHi == <<104, 105>>
TextYo == <<121, 0, 111>>
TextR1 == <<114, 49>>
TextR2 == <<114, 50>>

\* mutant: every control character is removed, tab and newline included
IsStrippedChar_AllControl(c) == c \in 0..31 \/ c = 127

\* /[\x00-\x08\x0B\x0C\x0E-\x1F\x7F]/
IsStrippedChar(c) ==
    \/ c \in 0..8
    \/ c = 11
    \/ c = 12
    \/ c \in 14..31
    \/ c = 127

\* input.replace(/[\x00-\x08\x0B\x0C\x0E-\x1F\x7F]/g, '')
sanitizeString(input) == SelectSeq(input, LAMBDA c : ~IsStrippedChar(c))

\* sanitizeString(input, maxLength) as a whole: threw is TRUE when it throws
\* ValidationError, value is what it returns otherwise
sanitizeStringCall(input, maxLength) ==
    IF input = UndefText
    THEN [threw |-> TRUE, value |-> <<>>]
    ELSE IF Len(input) > maxLength
    THEN [threw |-> TRUE, value |-> <<>>]
    ELSE [threw |-> FALSE, value |-> sanitizeString(input)]

\* mutant: an empty method name is rejected
validateMCPRequest_NonEmptyMethod(l) ==
    /\ l.shape = "object"
    /\ l.jsonrpc = "2.0"
    /\ IsString(l.method)
    /\ l.method # ""
    /\ ~(l.id = UNDEF \/ l.id = NULL)

\* mutant: the id is not required
validateMCPRequest_NoIdCheck(l) ==
    /\ l.shape = "object"
    /\ l.jsonrpc = "2.0"
    /\ IsString(l.method)

\* validateMCPRequest(request): TRUE when it returns, FALSE when it throws
\* ValidationError
validateMCPRequest(l) ==
    /\ l.shape = "object"
    /\ l.jsonrpc = "2.0"
    /\ IsString(l.method)
    /\ ~(l.id = UNDEF \/ l.id = NULL)

\* Numbers with one decimal are carried in tenths; NoNumber stands for an
\* absent optional number.
NoNumber == -1000

\* CommonSchemas.temperature: z.number().min(0).max(2)
ValidTemperature(t) == 0 <= t /\ t <= 20

\* CommonSchemas.imageUrl and CommonSchemas.base64Image, on the strings the
\* model carries
ImageUrl == "https://example.com/cat.png"
NotAUrl == "not a url"
ImageData == "data:image/png;base64,AAAA"

IsUrl(v) == v = ImageUrl

IsBase64Image(v) == v = ImageData

\* ToolSchemas.generateText, for the fields the model carries
ValidGenerateText(args) ==
    /\ args.defined
    /\ args.prompt # UndefText
    /\ Len(args.prompt) >= 1
    /\ (args.temperature # NoNumber => ValidTemperature(args.temperature))
    /\ (args.conversationId # UNDEF =>
            /\ IsString(args.conversationId)
            /\ args.conversationId # "")

\* ToolSchemas.analyzeImage
ValidAnalyzeImage(args) ==
    /\ args.defined
    /\ args.prompt # UndefText
    /\ Len(args.prompt) >= 1
    /\ (args.imageUrl # UNDEF => IsUrl(args.imageUrl))
    /\ (args.imageBase64 # UNDEF => IsBase64Image(args.imageBase64))
    /\ (Truthy(args.imageUrl) \/ Truthy(args.imageBase64))

\* ToolSchemas.countTokens and ToolSchemas.embedText
ValidTextArgs(args) ==
    /\ args.defined
    /\ args.text # UndefText
    /\ Len(args.text) >= 1

----------------------------------------------------------------------------
(* Input lines *)

Args(defined, prompt, conversationId, text) ==
    [defined |-> defined, prompt |-> prompt,
     conversationId |-> conversationId, text |-> text,
     temperature |-> NoNumber, imageUrl |-> UNDEF, imageBase64 |-> UNDEF]

\* arguments of analyze_image
ImageArgs(prompt, imageUrl, imageBase64) ==
    [Args(TRUE, prompt, UNDEF, UndefText) EXCEPT !.imageUrl = imageUrl,
                                                 !.imageBase64 = imageBase64]

\* arguments of generate_text with a temperature
TemperatureArgs(prompt, temperature) ==
    [Args(TRUE, prompt, UNDEF, UndefText) EXCEPT !.temperature = temperature]

NoArgs == Args(FALSE, UndefText, UNDEF, UndefText)

JsonLine(shape, jsonrpc, method, id, tool, args, uri) ==
    [parse |-> "json", shape |-> shape, jsonrpc |-> jsonrpc, method |-> method,
     id |-> id, tool |-> tool, args |-> args, uri |-> uri]

OtherLine(parse) ==
    [parse |-> parse, shape |-> "none", jsonrpc |-> UNDEF, method |-> UNDEF,
     id |-> UNDEF, tool |-> UNDEF, args |-> NoArgs, uri |-> UNDEF]

Ids == {UNDEF, NULL, ZERO, "", SEVEN}

ConvIds == {"c1", "c2"}

GenerateCalls ==
    {<<"generate_text", Args(TRUE, TextHi, "c1", UndefText)>>,
     <<"generate_text", Args(TRUE, TextYo, "c1", UndefText)>>,
     <<"generate_text", Args(TRUE, TextHi, "c2", UndefText)>>,
     <<"generate_text", Args(TRUE, TextHi, UNDEF, UndefText)>>,
     <<"generate_text", Args(TRUE, <<>>, "c1", UndefText)>>}

OtherCalls ==
    {<<"count_tokens", Args(TRUE, UndefText, UNDEF, TextHi)>>,
     <<"count_tokens", NoArgs>>,
     <<"list_models", NoArgs>>,
     <<"bogus_tool", NoArgs>>,
     <<UNDEF, NoArgs>>}

Lines ==
    {OtherLine("blank"), OtherLine("garbage"),
     JsonLine("null", UNDEF, UNDEF, UNDEF, UNDEF, NoArgs, UNDEF),
     JsonLine("primitive", UNDEF, UNDEF, UNDEF, UNDEF, NoArgs, UNDEF)}
    \cup {JsonLine("object", "1.0", "initialize", i, UNDEF, NoArgs, UNDEF) : i \in Ids}
    \cup {JsonLine("object", "2.0", NUM, i, UNDEF, NoArgs, UNDEF) : i \in {ZERO, SEVEN}}
    \cup {JsonLine("object", "2.0", "initialize", i, UNDEF, NoArgs, UNDEF) : i \in Ids}
    \cup {JsonLine("object", "2.0", "bogus/method", i, UNDEF, NoArgs, UNDEF) :
            i \in {UNDEF, NULL, SEVEN}}
    \cup {JsonLine("object", "2.0", "", SEVEN, UNDEF, NoArgs, UNDEF)}
    \cup {JsonLine("object", "2.0", "tools/call", SEVEN, tc[1], tc[2], UNDEF) :
            tc \in GenerateCalls \cup OtherCalls}
    \cup {JsonLine("object", "2.0", "tools/call", ZERO, "generate_text",
                    Args(TRUE, TextHi, "c1", UndefText), UNDEF)}
    \cup {JsonLine("object", "2.0", "resources/read", SEVEN, UNDEF, NoArgs, u) :
            u \in {UNDEF, "gemini://models"}}

\* tools/call requests for every tool, with arguments that meet and that
\* break the tool's schema
ToolCalls ==
    {<<"generate_text", Args(TRUE, TextHi, "c1", UndefText)>>,
     <<"generate_text", TemperatureArgs(TextHi, 0)>>,
     <<"generate_text", TemperatureArgs(TextHi, 30)>>,
     <<"generate_text", Args(TRUE, <<>>, UNDEF, UndefText)>>,
     <<"generate_text", NoArgs>>,
     <<"analyze_image", ImageArgs(TextHi, ImageUrl, UNDEF)>>,
     <<"analyze_image", ImageArgs(TextHi, UNDEF, ImageData)>>,
     <<"analyze_image", ImageArgs(TextHi, UNDEF, UNDEF)>>,
     <<"analyze_image", ImageArgs(TextHi, "", UNDEF)>>,
     <<"analyze_image", ImageArgs(TextHi, NotAUrl, UNDEF)>>,
     <<"analyze_image", ImageArgs(UndefText, ImageUrl, UNDEF)>>,
     <<"analyze_image", NoArgs>>,
     <<"count_tokens", Args(TRUE, UndefText, UNDEF, TextHi)>>,
     <<"count_tokens", Args(TRUE, UndefText, UNDEF, UndefText)>>,
     <<"count_tokens", NoArgs>>,
     <<"embed_text", Args(TRUE, UndefText, UNDEF, TextHi)>>,
     <<"embed_text", Args(TRUE, UndefText, UNDEF, <<>>)>>,
     <<"embed_text", NoArgs>>,
     <<"list_models", NoArgs>>,
     <<"get_help", NoArgs>>,
     <<"bogus_tool", NoArgs>>,
     <<UNDEF, NoArgs>>}

ToolLines ==
    {JsonLine("object", "2.0", "tools/call", SEVEN, tc[1], tc[2], UNDEF) :
        tc \in ToolCalls}
    \cup {JsonLine("object", "2.0", "tools/call", ZERO, "analyze_image",
                    ImageArgs(TextHi, UNDEF, UNDEF), UNDEF),
          JsonLine("object", "1.0", "tools/call", SEVEN, "generate_text",
                   Args(TRUE, TextHi, UNDEF, UndefText), UNDEF),
          JsonLine("object", "2.0", "bogus/method", SEVEN, UNDEF, NoArgs, UNDEF)}

----------------------------------------------------------------------------
(* EnhancedStdioMCPServer (src/enhanced-stdio-server.ts) *)

Message(role, text) == [role |-> role, text |-> text]

\* A response as written by sendResponse.  line is the number of the input
\* line whose handling wrote it; text is result.content[0].text; data is
\* error.data, UNDEF when the response has no such key.
Success(n, id, text) ==
    [line |-> n, id |-> id, kind |-> "result", code |-> 0, text |-> text,
     data |-> UNDEF]

\* the error responses of the handlers and of MCPError.toMCPResponse:
\* { code, message }, and no data because no error of the server is
\* constructed with one
Failure(n, id, code) ==
    [line |-> n, id |-> id, kind |-> "error", code |-> code, text |-> UndefText,
     data |-> UNDEF]

\* the error object a failed call of the remote service rejects with
UpstreamPayload == "<upstream error>"

NoResponse == Failure(0, UNDEF, 0)

\* How far a handler gets before control returns to the event loop:
\*   "sync"      the response is written before the line handler returns
\*   "microtask" the response is decided, and written after an await resumes
\*   "remote"    the handler awaits the remote service
\*   "dropped"   the handler returned without a response
Sync(resp) ==
    [stage |-> "sync", resp |-> resp, api |-> UNDEF, contents |-> <<>>, conv |-> UNDEF]
Deferred(resp) ==
    [stage |-> "microtask", resp |-> resp, api |-> UNDEF, contents |-> <<>>, conv |-> UNDEF]
Remote(api, contents, conv) ==
    [stage |-> "remote", resp |-> NoResponse, api |-> api, contents |-> contents,
     conv |-> conv]
Dropped ==
    [stage |-> "dropped", resp |-> NoResponse, api |-> UNDEF, contents |-> <<>>,
     conv |-> UNDEF]

\* mutant: all conversation ids share one stored history
GetHistory_Any(convs, id) ==
    IF DOMAIN convs # {} THEN convs[CHOOSE k \in DOMAIN convs : TRUE] ELSE <<>>

\* this.conversations.get(id) || []
GetHistory(convs, id) == IF id \in DOMAIN convs THEN convs[id] ELSE <<>>

\* mutant: the history is put behind the new user message
RequestContents_HistoryLast(convs, args) ==
    LET userMessage == <<Message("user", sanitizeString(args.prompt))>>
        history == GetHistory(convs, args.conversationId)
    IN IF Truthy(args.conversationId) /\ Len(history) > 0
       THEN userMessage \o history
       ELSE userMessage

\* requestBody.contents of generateText: the new user message, with the
\* stored history in front of it when a conversationId is given
RequestContents(convs, args) ==
    LET userMessage == <<Message("user", sanitizeString(args.prompt))>>
        history == GetHistory(convs, args.conversationId)
    IN IF Truthy(args.conversationId) /\ Len(history) > 0
       THEN history \o userMessage
       ELSE userMessage

\* The sampling parameters of generate_text.  temperature is carried in
\* tenths and topP in hundredths; NoNumber stands for an absent parameter.
Sampling(temperature, maxTokens, topK, topP) ==
    [temperature |-> temperature, maxTokens |-> maxTokens, topK |-> topK,
     topP |-> topP]

NoSampling == Sampling(NoNumber, NoNumber, NoNumber, NoNumber)

\* CommonSchemas.temperature, maxTokens, topK and topP, each optional
ValidSampling(given) ==
    /\ (given.temperature # NoNumber => ValidTemperature(given.temperature))
    /\ (given.maxTokens # NoNumber => 1 <= given.maxTokens /\ given.maxTokens <= 8192)
    /\ (given.topK # NoNumber => 1 <= given.topK /\ given.topK <= 100)
    /\ (given.topP # NoNumber => 0 <= given.topP /\ given.topP <= 100)

\* value || fallback, for a number or undefined: 0 is falsy
OrDefault(value, fallback) ==
    IF value = NoNumber \/ value = 0 THEN fallback ELSE value

\* generationConfig of generateText:
\*   temperature: validatedArgs.temperature || 0.7,
\*   maxOutputTokens: validatedArgs.maxTokens || 2048,
\*   topK: validatedArgs.topK || 40,
\*   topP: validatedArgs.topP || 0.95
generationConfig(given) ==
    [temperature |-> OrDefault(given.temperature, 7),
     maxOutputTokens |-> OrDefault(given.maxTokens, 2048),
     topK |-> OrDefault(given.topK, 40),
     topP |-> OrDefault(given.topP, 95)]

NoConfig == [temperature |-> NoNumber, maxOutputTokens |-> NoNumber,
             topK |-> NoNumber, topP |-> NoNumber]

\* generateText up to its await
generateText(n, id, args, convs) ==
    IF ~ValidGenerateText(args)
    THEN Deferred(Failure(n, id, -32603))
    ELSE Remote("generateContent", RequestContents(convs, args), args.conversationId)

\* mutant: the model's reply is not stored
UpdatedHistory_UserOnly(convs, conv, contents, text) ==
    GetHistory(convs, conv) \o contents

\* mutant: the history is replaced by the request and its reply
UpdatedHistory_FromRequest(convs, conv, contents, text) ==
    contents \o <<Message("model", text)>>

\* the history generateText stores once the remote call has returned text
UpdatedHistory(convs, conv, contents, text) ==
    (GetHistory(convs, conv) \o contents) \o <<Message("model", text)>>

\* countTokens up to its await
countTokens(n, id, args) ==
    IF ~args.defined
    THEN Deferred(Failure(n, id, -32603))
    ELSE Remote("countTokens", <<Message("user", args.text)>>, UNDEF)

\* GEMINI_MODELS, in the order of its keys
Model(name, thinking, features) ==
    [name |-> name, thinking |-> thinking, features |-> features]

GEMINI_MODELS ==
    <<Model("gemini-2.5-pro", TRUE,
            {"thinking", "function_calling", "json_mode", "grounding",
             "system_instructions"}),
      Model("gemini-2.5-flash", TRUE,
            {"thinking", "function_calling", "json_mode", "grounding",
             "system_instructions"}),
      Model("gemini-2.5-flash-lite", TRUE,
            {"thinking", "function_calling", "json_mode", "system_instructions"}),
      Model("gemini-2.0-flash", FALSE,
            {"function_calling", "json_mode", "grounding", "system_instructions"}),
      Model("gemini-2.0-flash-lite", FALSE,
            {"function_calling", "json_mode", "system_instructions"}),
      Model("gemini-2.0-pro-experimental", FALSE,
            {"function_calling", "json_mode", "grounding", "system_instructions"}),
      Model("gemini-1.5-pro", FALSE,
            {"function_calling", "json_mode", "system_instructions"}),
      Model("gemini-1.5-flash", FALSE,
            {"function_calling", "json_mode", "system_instructions"})>>

\* the switch inside models.filter
MatchesFilter(info, filter) ==
    CASE filter = "thinking" -> info.thinking
      [] filter = "vision" -> "function_calling" \in info.features
      [] filter = "grounding" -> "grounding" \in info.features
      [] filter = "json_mode" -> "json_mode" \in info.features
      [] OTHER -> TRUE

Names(models) == [i \in 1..Len(models) |-> models[i].name]

\* mutant: a filter the switch does not know selects nothing
listModels_UnknownIsEmpty(filter) ==
    LET f == IF Truthy(filter) THEN filter ELSE "all"
        known == {"all", "thinking", "vision", "grounding", "json_mode"}
        models == IF f \notin known
                  THEN <<>>
                  ELSE SelectSeq(GEMINI_MODELS, LAMBDA m : MatchesFilter(m, f))
    IN [list |-> Names(models), count |-> Len(models), filter |-> f]

\* listModels: the names of the returned list, and metadata.count and
\* metadata.filter
listModels(filter) ==
    LET f == IF Truthy(filter) THEN filter ELSE "all"
        models == IF f # "all"
                  THEN SelectSeq(GEMINI_MODELS, LAMBDA m : MatchesFilter(m, f))
                  ELSE GEMINI_MODELS
    IN [list |-> Names(models), count |-> Len(models), filter |-> f]

\* mutant: the test for a missing image comes after the remote call
analyzeImage_NoImageCheck(n, id, args) ==
    IF ~args.defined
    THEN Deferred(Failure(n, id, -32603))
    ELSE Remote("generateContent", <<Message("user", args.prompt)>>, UNDEF)

\* analyzeImage up to its await: args.model throws when args is undefined,
\* and a call without imageUrl and imageBase64 throws; both end in the catch
\* block
analyzeImage(n, id, args) ==
    IF ~args.defined
    THEN Deferred(Failure(n, id, -32603))
    ELSE IF ~Truthy(args.imageUrl) /\ ~Truthy(args.imageBase64)
    THEN Deferred(Failure(n, id, -32603))
    ELSE Remote("generateContent", <<Message("user", args.prompt)>>, UNDEF)

\* embedText up to its await
embedText(n, id, args) ==
    IF ~args.defined
    THEN Deferred(Failure(n, id, -32603))
    ELSE Remote("embedContent", <<Message("user", args.text)>>, UNDEF)

ToolNames == {"generate_text", "analyze_image", "count_tokens", "list_models",
              "embed_text", "get_help"}

\* mutant: a tool name the switch does not know is answered as an internal
\* error
handleToolCall_UnknownIsInternal(n, l, convs) ==
    CASE l.tool = "generate_text" -> generateText(n, l.id, l.args, convs)
      [] l.tool = "analyze_image" -> analyzeImage(n, l.id, l.args)
      [] l.tool = "count_tokens" -> countTokens(n, l.id, l.args)
      [] l.tool = "list_models" -> Deferred(Success(n, l.id, UndefText))
      [] l.tool = "embed_text" -> embedText(n, l.id, l.args)
      [] l.tool = "get_help" -> Deferred(Success(n, l.id, UndefText))
      [] OTHER -> Deferred(Failure(n, l.id, -32603))

handleToolCall(n, l, convs) ==
    CASE l.tool = "generate_text" -> generateText(n, l.id, l.args, convs)
      [] l.tool = "analyze_image" -> analyzeImage(n, l.id, l.args)
      [] l.tool = "count_tokens" -> countTokens(n, l.id, l.args)
      [] l.tool = "list_models" -> Deferred(Success(n, l.id, UndefText))
      [] l.tool = "embed_text" -> embedText(n, l.id, l.args)
      [] l.tool = "get_help" -> Deferred(Success(n, l.id, UndefText))
      [] OTHER -> Deferred(Failure(n, l.id, -32601))

handleResourceRead(n, l) ==
    IF ~Truthy(l.uri)
    THEN Deferred(Failure(n, l.id, -32602))
    ELSE IF l.uri = "gemini://models"
    THEN Deferred(Success(n, l.id, UndefText))
    ELSE Deferred(Failure(n, l.id, -32602))

\* the cases of the switch in handleRequest
Methods == {"initialize", "tools/list", "tools/call", "resources/list",
            "resources/read", "prompts/list"}

\* !('id' in request)
LacksIdKey(l) == l.id = UNDEF

\* mutant: the answer to initialize and the list methods is written after an
\* await
handleRequest_ListsAwait(n, l, convs) ==
    CASE l.method \in {"initialize", "tools/list", "resources/list", "prompts/list"} ->
            Deferred(Success(n, l.id, UndefText))
      [] l.method = "tools/call" -> handleToolCall(n, l, convs)
      [] l.method = "resources/read" -> handleResourceRead(n, l)
      [] OTHER -> IF LacksIdKey(l) THEN Dropped ELSE Sync(Failure(n, l.id, -32601))

handleRequest(n, l, convs) ==
    CASE l.method \in {"initialize", "tools/list", "resources/list", "prompts/list"} ->
            Sync(Success(n, l.id, UndefText))
      [] l.method = "tools/call" -> handleToolCall(n, l, convs)
      [] l.method = "resources/read" -> handleResourceRead(n, l)
      [] OTHER -> IF LacksIdKey(l) THEN Dropped ELSE Sync(Failure(n, l.id, -32601))

\* if (partialRequest.id) in the catch block of the line handler
CanAnswer(l) == l.shape = "object" /\ Truthy(l.id)

\* mutant: the catch block answers without parsing the line again
CatchBlock_NoParseCheck(n, l, code) == <<Failure(n, l.id, code)>>

\* the catch block: the responses it writes for an error with the given code
CatchBlock(n, l, code) ==
    IF l.parse = "json" /\ CanAnswer(l) THEN <<Failure(n, l.id, code)>> ELSE <<>>

\* is a generate_text call of this conversation awaiting the remote service?
Overlaps(l) ==
    /\ l.tool = "generate_text"
    /\ \E p \in pending : p.stage = "remote" /\ p.api = "generateContent"
                          /\ Truthy(p.conv) /\ p.conv = l.args.conversationId

Note(l, valid, limited, overlap) ==
    [line |-> l, valid |-> valid, limited |-> limited, overlap |-> overlap]

ServerInit ==
    /\ conversations = EmptyMap
    /\ pending = {}
    /\ output = <<>>
    /\ remoteCalls = <<>>
    /\ received = <<>>

\* mutant: the rate limiter is asked before the line is parsed and validated
Line_LimitFirst(l) ==
    /\ Len(received) < MaxLines
    /\ LET n == Len(received) + 1
           valid == l.parse = "json" /\ validateMCPRequest(l)
           rl == checkLimit(requests, "default", now, rateLimitEnabled, maxRequests)
           h == handleRequest(n, l, conversations)
       IN IF l.parse = "blank"
          THEN /\ received' = Append(received, Note(l, FALSE, FALSE, FALSE))
               /\ UNCHANGED <<requests, pending, output, remoteCalls>>
          ELSE IF rl.threw
          THEN /\ received' = Append(received, Note(l, valid, TRUE, FALSE))
               /\ output' = output \o CatchBlock(n, l, -32002)
               /\ UNCHANGED <<requests, pending, remoteCalls>>
          ELSE IF ~valid
          THEN /\ received' = Append(received, Note(l, FALSE, FALSE, FALSE))
               /\ requests' = rl.requests
               /\ output' = output \o CatchBlock(n, l, -32602)
               /\ UNCHANGED <<pending, remoteCalls>>
          ELSE /\ received' = Append(received, Note(l, TRUE, FALSE, Overlaps(l)))
               /\ requests' = rl.requests
               /\ output' = IF h.stage = "sync" THEN Append(output, h.resp) ELSE output
               /\ pending' = IF h.stage \in {"microtask", "remote"}
                             THEN pending \cup {[line |-> n, id |-> l.id, stage |-> h.stage,
                                                 resp |-> h.resp, api |-> h.api,
                                                 contents |-> h.contents, conv |-> h.conv]}
                             ELSE pending
               /\ remoteCalls' = IF h.stage = "remote"
                                 THEN Append(remoteCalls, [line |-> n, api |-> h.api,
                                                           contents |-> h.contents])
                                 ELSE remoteCalls
    /\ UNCHANGED <<now, rateLimitEnabled, maxRequests, lastCheck, window,
                   conversations, retry, call, twinVars, accepted>>

\* rl.on('line', ...): everything that runs before control returns to the
\* event loop
Line(l) ==
    /\ Len(received) < MaxLines
    /\ LET n == Len(received) + 1
           valid == l.parse = "json" /\ validateMCPRequest(l)
           rl == checkLimit(requests, "default", now, rateLimitEnabled, maxRequests)
           h == handleRequest(n, l, conversations)
       IN IF l.parse = "blank"
          THEN /\ received' = Append(received, Note(l, FALSE, FALSE, FALSE))
               /\ UNCHANGED <<requests, pending, output, remoteCalls>>
          ELSE IF ~valid
          THEN /\ received' = Append(received, Note(l, FALSE, FALSE, FALSE))
               /\ output' = output \o CatchBlock(n, l, -32602)
               /\ UNCHANGED <<requests, pending, remoteCalls>>
          ELSE IF rl.threw
          THEN /\ received' = Append(received, Note(l, TRUE, TRUE, FALSE))
               /\ output' = output \o CatchBlock(n, l, -32002)
               /\ UNCHANGED <<requests, pending, remoteCalls>>
          ELSE /\ received' = Append(received, Note(l, TRUE, FALSE, Overlaps(l)))
               /\ requests' = rl.requests
               /\ output' = IF h.stage = "sync" THEN Append(output, h.resp) ELSE output
               /\ pending' = IF h.stage \in {"microtask", "remote"}
                             THEN pending \cup {[line |-> n, id |-> l.id, stage |-> h.stage,
                                                 resp |-> h.resp, api |-> h.api,
                                                 contents |-> h.contents, conv |-> h.conv]}
                             ELSE pending
               /\ remoteCalls' = IF h.stage = "remote"
                                 THEN Append(remoteCalls, [line |-> n, api |-> h.api,
                                                           contents |-> h.contents])
                                 ELSE remoteCalls
    /\ UNCHANGED <<now, rateLimitEnabled, maxRequests, lastCheck, window,
                   conversations, retry, call, twinVars, accepted>>

\* mutant: a handler resumes only when no remote call is under way
Resume_AfterRemoteCalls(p) ==
    /\ p \in pending
    /\ p.stage = "microtask"
    /\ \A q \in pending : q.stage # "remote"
    /\ pending' = pending \ {p}
    /\ output' = Append(output, p.resp)
    /\ UNCHANGED <<limiterVars, lastCheck, window, conversations, remoteCalls,
                   received, retry, call, twinVars, accepted>>

\* an await on an already settled promise resumes; sendResponse
Resume(p) ==
    /\ p \in pending
    /\ p.stage = "microtask"
    /\ pending' = pending \ {p}
    /\ output' = Append(output, p.resp)
    /\ UNCHANGED <<limiterVars, lastCheck, window, conversations, remoteCalls,
                   received, retry, call, twinVars, accepted>>

Replies == {TextR1, TextR2}

\* result.text || ''
TextOrEmpty(t) == IF t = UndefText THEN <<>> ELSE t

\* the remote service returns: the rest of the handler, then sendResponse
RemoteReturns(p, t) ==
    /\ p \in pending
    /\ p.stage = "remote"
    /\ pending' = pending \ {p}
    /\ IF p.api = "generateContent"
       THEN /\ conversations' =
                  IF Truthy(p.conv)
                  THEN MapSet(conversations, p.conv,
                              UpdatedHistory(conversations, p.conv, p.contents,
                                             TextOrEmpty(t)))
                  ELSE conversations
            /\ output' = Append(output, Success(p.line, p.id, TextOrEmpty(t)))
       ELSE /\ conversations' = conversations
            /\ output' = Append(output, Success(p.line, p.id, UndefText))
    /\ UNCHANGED <<limiterVars, lastCheck, window, remoteCalls, received, retry, call, twinVars, accepted>>

\* mutant: a failed remote call is made once more before the handler gives up
RemoteFails_RetryOnce(p) ==
    /\ p \in pending
    /\ p.stage = "remote"
    /\ IF Cardinality({k \in 1..Len(remoteCalls) : remoteCalls[k].line = p.line}) = 1
       THEN /\ remoteCalls' = Append(remoteCalls, [line |-> p.line, api |-> p.api,
                                                   contents |-> p.contents])
            /\ UNCHANGED <<pending, output>>
       ELSE /\ pending' = pending \ {p}
            /\ output' = Append(output, Failure(p.line, p.id, -32603))
            /\ UNCHANGED remoteCalls
    /\ UNCHANGED <<limiterVars, lastCheck, window, conversations, received, retry,
                   call, twinVars, accepted>>

\* mutant: the request is stored in the history although the call failed
RemoteFails_StoresRequest(p) ==
    /\ p \in pending
    /\ p.stage = "remote"
    /\ pending' = pending \ {p}
    /\ output' = Append(output, Failure(p.line, p.id, -32603))
    /\ conversations' =
          IF p.api = "generateContent" /\ Truthy(p.conv)
          THEN MapSet(conversations, p.conv, GetHistory(conversations, p.conv) \o p.contents)
          ELSE conversations
    /\ UNCHANGED <<limiterVars, lastCheck, window, remoteCalls, received, retry,
                   call, twinVars, accepted>>

\* the remote service fails: the handler's catch block, then sendResponse
RemoteFails(p) ==
    /\ p \in pending
    /\ p.stage = "remote"
    /\ pending' = pending \ {p}
    /\ output' = Append(output, Failure(p.line, p.id, -32603))
    /\ UNCHANGED <<limiterVars, lastCheck, window, conversations, remoteCalls,
                   received, retry, call, twinVars, accepted>>

\* the handling of line n goes on from its await: the settled promise
\* resumes it, or the remote service returns or fails
Settle(n) ==
    \E p \in pending :
        /\ p.line = n
        /\ \/ Resume(p)
           \/ \E t \in Replies : RemoteReturns(p, t)
           \/ RemoteFails(p)

----------------------------------------------------------------------------
(* Utility functions called on their own *)

ErrorClasses == {"GeminiAPIError", "ValidationError", "RateLimitError",
                 "MCPError", "Error"}

Statuses == {UNDEF, "UNAVAILABLE", "RESOURCE_EXHAUSTED", "INTERNAL",
             "INVALID_ARGUMENT"}

Codes == {NoCode, 400, 429, 500, 503}

\* error objects of every class, with and without an originalError payload
ErrorValues == {Err(c, st, k) : c \in ErrorClasses, st \in Statuses, k \in Codes}

\* parsed messages handed to validateMCPRequest
Envelopes ==
    {JsonLine("null", UNDEF, UNDEF, UNDEF, UNDEF, NoArgs, UNDEF),
     JsonLine("primitive", UNDEF, UNDEF, UNDEF, UNDEF, NoArgs, UNDEF)}
    \cup {JsonLine("object", j, m, i, UNDEF, NoArgs, UNDEF) :
            j \in {"2.0", "1.0", UNDEF, NUM},
            m \in {"initialize", "", "bogus/method", UNDEF, NULL, NUM},
            i \in Ids \cup {"abc"}}

\* the values args?.filter takes in list_models
Filters == {UNDEF, NULL, ZERO, SEVEN, "", "all", "thinking", "vision",
            "grounding", "json_mode", "bogus"}

SanitizeAlphabet == {0, 8, 9, 10, 11, 12, 13, 14, 31, 32, 104, 127}

\* the strings handed to sanitizeString, and undefined for a non-string
SanitizeInputs ==
    UNION {[1..k -> SanitizeAlphabet] : k \in 0..MaxTextLen} \cup {UndefText}

\* the sampling parameters handed to generate_text: absent, the ends of
\* each schema range, the documented defaults and values outside the range
SamplingInputs ==
    {Sampling(t, m, k, p) : t \in {NoNumber, 0, 7, 20, 21},
                            m \in {NoNumber, 0, 1, 2048, 8192},
                            k \in {NoNumber, 1, 40, 100},
                            p \in {NoNumber, 0, 50, 95, 100}}

NoCall == [fn |-> "none", attempt |-> 0, error |-> NoError,
           request |-> OtherLine("blank"), returned |-> FALSE, delay |-> 0,
           flag |-> FALSE, filter |-> UNDEF, list |-> <<>>, count |-> 0,
           input |-> <<>>, maxLength |-> 0, threw |-> FALSE, text |-> <<>>,
           given |-> NoSampling, config |-> NoConfig]

UtilInit ==
    \/ \E n \in 0..MaxDelayAttempt :
          call = [NoCall EXCEPT !.fn = "getRetryDelay", !.attempt = n]
    \/ \E e \in ErrorValues \cup {NoError} :
          call = [NoCall EXCEPT !.fn = "isRetryableError", !.error = e]
    \/ \E l \in Envelopes :
          call = [NoCall EXCEPT !.fn = "validateMCPRequest", !.request = l]
    \/ \E f \in Filters :
          call = [NoCall EXCEPT !.fn = "listModels", !.filter = f]
    \/ \E i \in SanitizeInputs, m \in 0..MaxTextLen :
          call = [NoCall EXCEPT !.fn = "sanitizeString", !.input = i,
                                !.maxLength = m]
    \/ \E g \in SamplingInputs :
          call = [NoCall EXCEPT !.fn = "generationConfig", !.given = g]

GetRetryDelay ==
    /\ call.fn = "getRetryDelay"
    /\ ~call.returned
    /\ call' = [call EXCEPT !.returned = TRUE, !.delay = getRetryDelay(call.attempt)]
    /\ UNCHANGED <<limiterVars, lastCheck, window, serverVars, retry, twinVars, accepted>>

IsRetryableError ==
    /\ call.fn = "isRetryableError"
    /\ ~call.returned
    /\ call' = [call EXCEPT !.returned = TRUE, !.flag = isRetryableError(call.error)]
    /\ UNCHANGED <<limiterVars, lastCheck, window, serverVars, retry, twinVars, accepted>>

\* flag: the call returned normally (TRUE) or threw ValidationError (FALSE)
ValidateMCPRequest ==
    /\ call.fn = "validateMCPRequest"
    /\ ~call.returned
    /\ call' = [call EXCEPT !.returned = TRUE, !.flag = validateMCPRequest(call.request)]
    /\ UNCHANGED <<limiterVars, lastCheck, window, serverVars, retry, twinVars, accepted>>

ListModels ==
    /\ call.fn = "listModels"
    /\ ~call.returned
    /\ LET r == listModels(call.filter)
       IN call' = [call EXCEPT !.returned = TRUE, !.list = r.list,
                               !.count = r.count]
    /\ UNCHANGED <<limiterVars, lastCheck, window, serverVars, retry, twinVars, accepted>>

SanitizeString ==
    /\ call.fn = "sanitizeString"
    /\ ~call.returned
    /\ LET r == sanitizeStringCall(call.input, call.maxLength)
       IN call' = [call EXCEPT !.returned = TRUE, !.threw = r.threw,
                               !.text = r.value]
    /\ UNCHANGED <<limiterVars, lastCheck, window, serverVars, retry, twinVars, accepted>>

\* generateText from validateToolParams to the generationConfig it puts into
\* the request: threw is TRUE when the schema rejects the parameters
GenerationConfig ==
    /\ call.fn = "generationConfig"
    /\ ~call.returned
    /\ IF ValidSampling(call.given)
       THEN call' = [call EXCEPT !.returned = TRUE,
                                 !.config = generationConfig(call.given)]
       ELSE call' = [call EXCEPT !.returned = TRUE, !.threw = TRUE]
    /\ UNCHANGED <<limiterVars, lastCheck, window, serverVars, retry, twinVars, accepted>>

----------------------------------------------------------------------------
(* Specifications *)

\* the server: lines arrive, handlers resume, the clock and the sweep run
Init ==
    /\ now = 0
    /\ rateLimitEnabled \in BOOLEAN
    /\ maxRequests \in 1..MaxReq
    /\ (~rateLimitEnabled => maxRequests = 1)
    /\ requests = EmptyMap
    /\ lastCheck = NoCheck
    /\ window = [k \in Identifiers |-> NoWindow]
    /\ TwinInit
    /\ AcceptedInit
    /\ ServerInit
    /\ retry = RetryIdle
    /\ call = NoCall

Next ==
    \/ \E l \in Lines : Line(l)
    \/ \E p \in pending : Resume(p)
    \/ \E p \in pending, t \in Replies : RemoteReturns(p, t)
    \/ \E p \in pending : RemoteFails(p)
    \/ Tick(ServerMaxTicks)
    \/ Cleanup

Spec == Init /\ [][Next]_vars

\* the rate limiter on its own, called with several keys
InitRL == LimiterInit /\ ServerInit /\ retry = RetryIdle /\ call = NoCall

NextRL ==
    \/ \E k \in Identifiers : CheckLimit(k)
    \/ \E k \in Identifiers : Reset(k)
    \/ \E k \in Identifiers : GetUsage(k)
    \/ Cleanup
    \/ Tick(MaxTicks)

SpecRL == InitRL /\ [][NextRL]_vars

\* withRetry on its own, for every scripted operation
InitRetry ==
    /\ now = 0
    /\ rateLimitEnabled = TRUE
    /\ maxRequests = 1
    /\ requests = EmptyMap
    /\ lastCheck = NoCheck
    /\ window = [k \in Identifiers |-> NoWindow]
    /\ TwinInit
    /\ AcceptedInit
    /\ ServerInit
    /\ RetryInit
    /\ call = NoCall

NextRetry ==
    \/ RetryLoop
    \/ RetrySettle
    \/ RetryWake

SpecRetry == InitRetry /\ [][NextRetry]_vars

\* every awaited promise of withRetry settles: the operation terminates and
\* the backoff timer fires
SpecRetryLive == SpecRetry /\ WF_vars(NextRetry)

\* requests of every kind of handling: answered at once, answered after an
\* await, sent to the remote service, rejected, and without an answer
LiveLines ==
    {OtherLine("garbage"),
     JsonLine("object", "1.0", "initialize", SEVEN, UNDEF, NoArgs, UNDEF),
     JsonLine("object", "2.0", "initialize", ZERO, UNDEF, NoArgs, UNDEF),
     JsonLine("object", "2.0", "bogus/method", SEVEN, UNDEF, NoArgs, UNDEF),
     JsonLine("object", "2.0", "resources/read", SEVEN, UNDEF, NoArgs, "gemini://models"),
     JsonLine("object", "2.0", "tools/call", "", "bogus_tool", NoArgs, UNDEF)}
    \cup {JsonLine("object", "2.0", "tools/call", i, "generate_text",
                    Args(TRUE, TextHi, "c1", UndefText), UNDEF) : i \in {ZERO, SEVEN}}
    \cup {JsonLine("object", "2.0", "tools/call", SEVEN, tc[1], tc[2], UNDEF) :
            tc \in {<<"generate_text", Args(TRUE, <<>>, "c1", UndefText)>>,
                    <<"count_tokens", Args(TRUE, UndefText, UNDEF, TextHi)>>,
                    <<"analyze_image", ImageArgs(TextHi, ImageUrl, UNDEF)>>,
                    <<"list_models", NoArgs>>}}

\* the server when every awaited promise settles: a handler suspended at an
\* await is resumed, and each remote call returns or fails
NextLive ==
    \/ \E l \in LiveLines : Line(l)
    \/ \E n \in 1..MaxLines : Settle(n)

SpecLive ==
    /\ Init
    /\ [][NextLive]_vars
    /\ \A n \in 1..MaxLines : WF_vars(Settle(n))

\* the tool handlers, with the rate limiter switched off
InitTools ==
    /\ now = 0
    /\ rateLimitEnabled = FALSE
    /\ maxRequests = 1
    /\ requests = EmptyMap
    /\ lastCheck = NoCheck
    /\ window = [k \in Identifiers |-> NoWindow]
    /\ TwinInit
    /\ AcceptedInit
    /\ ServerInit
    /\ retry = RetryIdle
    /\ call = NoCall

NextTools ==
    \/ \E l \in ToolLines : Line(l)
    \/ \E p \in pending : Resume(p)
    \/ \E p \in pending, t \in Replies : RemoteReturns(p, t)
    \/ \E p \in pending : RemoteFails(p)

SpecTools == InitTools /\ [][NextTools]_vars

\* the utility functions on their own, each called once on every argument
InitUtil ==
    /\ now = 0
    /\ rateLimitEnabled = TRUE
    /\ maxRequests = 1
    /\ requests = EmptyMap
    /\ lastCheck = NoCheck
    /\ window = [k \in Identifiers |-> NoWindow]
    /\ TwinInit
    /\ AcceptedInit
    /\ ServerInit
    /\ retry = RetryIdle
    /\ UtilInit

NextUtil ==
    \/ GetRetryDelay
    \/ IsRetryableError
    \/ ValidateMCPRequest
    \/ ListModels
    \/ SanitizeString
    \/ GenerationConfig

SpecUtil == InitUtil /\ [][NextUtil]_vars

----------------------------------------------------------------------------
(* Properties of the line handler and the dispatcher *)

LineNos == 1..Len(received)

\* the positions in the output of the responses written for line n
ResponsesTo(n) == {k \in 1..Len(output) : output[k].line = n}

\* the handling of line n has run to its end
Settled(n) == \A p \in pending : p.line # n

HasId(l) == ~(l.id = UNDEF \/ l.id = NULL)

\* C1: every line that parses, passes envelope validation and carries an id
\* is answered by exactly one response, which carries the request's id,
\* whether it was served, failed, unknown or rejected by the rate limiter.
C1_OneResponsePerRequest ==
    \A n \in LineNos :
        (received[n].valid /\ HasId(received[n].line)) =>
            /\ Cardinality(ResponsesTo(n)) <= 1
            /\ Settled(n) => Cardinality(ResponsesTo(n)) = 1
            /\ \A k \in ResponsesTo(n) : output[k].id = received[n].line.id

\* C2: a line that parses to an object, fails envelope validation and
\* carries an id (0 and '' included) is answered by exactly one Failure
\* with that id.
C2_InvalidEnvelopeAnswered ==
    \A n \in LineNos :
        LET l == received[n].line
        IN (l.parse = "json" /\ l.shape = "object" /\ ~received[n].valid /\ HasId(l)) =>
               /\ Cardinality(ResponsesTo(n)) = 1
               /\ \A k \in ResponsesTo(n) :
                      output[k].kind = "error" /\ output[k].id = l.id

\* C3: a non-empty line that is not JSON is never answered.
C3_UnparseableLineSilent ==
    \A n \in LineNos :
        received[n].line.parse = "garbage" =>
            /\ ResponsesTo(n) = {}
            /\ Settled(n)

C3_Witness ==
    \E n \in LineNos :
        /\ received[n].line.parse = "garbage"
        /\ n > 1
        /\ Len(output) > 0

\* C4: a message without an id (absent or null) is never answered, whatever
\* its method and whatever the rate limiter holds.
C4_NotificationSilent ==
    \A n \in LineNos :
        LET l == received[n].line
        IN (l.parse = "json" /\ ~HasId(l)) =>
               /\ ResponsesTo(n) = {}
               /\ Settled(n)

C4_Witness ==
    /\ rateLimitEnabled
    /\ "default" \in DOMAIN requests
    /\ requests["default"].count >= maxRequests
    /\ \E n, m \in LineNos :
        /\ n > 1
        /\ received[n].line.id = UNDEF
        /\ received[n].line.method = "initialize"
        /\ received[m].line.id = NULL
        /\ received[m].line.method = "bogus/method"

\* the generateContent requests sent while handling line n
Sent(n) ==
    {k \in 1..Len(remoteCalls) :
        remoteCalls[k].line = n /\ remoteCalls[k].api = "generateContent"}

ConvOf(n) == received[n].line.args.conversationId

Succeeded(n) == \E k \in ResponsesTo(n) : output[k].kind = "result"

\* the user message of the call on line n, and its model reply
UserOf(n) == Message("user", sanitizeString(received[n].line.args.prompt))
ModelOf(n) == Message("model", output[CHOOSE k \in ResponsesTo(n) : TRUE].text)

\* C7: when a generate_text call follows a successful one of the same
\* conversation, its request holds the earlier call's user message and model
\* reply, in that order, before its own user message.
C7_SecondRequestCarriesFirstExchange ==
    \A i, j \in LineNos :
        (/\ i < j
         /\ Sent(i) # {} /\ Sent(j) # {}
         /\ Truthy(ConvOf(i)) /\ ConvOf(i) = ConvOf(j)
         /\ Succeeded(i)
         /\ ~received[j].overlap) =>
            \A k \in Sent(j) :
                LET c == remoteCalls[k].contents
                IN /\ Last(c) = UserOf(j)
                   /\ \E q \in 1..(Len(c) - 2) :
                          c[q] = UserOf(i) /\ c[q + 1] = ModelOf(i)

C7_Witness ==
    \E i, j \in LineNos :
        /\ i < j
        /\ Sent(i) # {} /\ Sent(j) # {}
        /\ ConvOf(i) = "c1" /\ ConvOf(j) = "c1"
        /\ Succeeded(i) /\ Succeeded(j)
        /\ ~received[j].overlap
        /\ UserOf(i) # UserOf(j)
        /\ ModelOf(i) # ModelOf(j)

\* the exchanges of conversation c among the first m responses, in the order
\* the responses were written
RECURSIVE Exchanges(_, _)
Exchanges(c, m) ==
    IF m = 0 THEN <<>>
    ELSE LET r == output[m]
         IN IF r.kind = "result" /\ Sent(r.line) # {} /\ ConvOf(r.line) = c
            THEN Exchanges(c, m - 1) \o <<UserOf(r.line), Message("model", r.text)>>
            ELSE Exchanges(c, m - 1)

\* the exchanges of conversation c completed by the lines before line j
RECURSIVE ExchangesBefore(_, _, _)
ExchangesBefore(c, j, i) ==
    IF i = 0 THEN <<>>
    ELSE IF i < j /\ Sent(i) # {} /\ ConvOf(i) = c /\ Succeeded(i)
    THEN ExchangesBefore(c, j, i - 1) \o <<UserOf(i), ModelOf(i)>>
    ELSE ExchangesBefore(c, j, i - 1)

Sequential(c) ==
    \A n \in LineNos : (Sent(n) # {} /\ ConvOf(n) = c) => ~received[n].overlap

\* C8: after k successful generate_text calls of one conversation made one
\* after the other, the stored history is user1, model1, ..., userk, modelk,
\* and the next request is that sequence followed by the new user message.
C8_HistoryIsTheExchangesInOrder ==
    \A c \in ConvIds :
        Sequential(c) =>
            /\ GetHistory(conversations, c) = Exchanges(c, Len(output))
            /\ \A j \in LineNos : \A k \in Sent(j) :
                   ConvOf(j) = c =>
                       remoteCalls[k].contents =
                           ExchangesBefore(c, j, j - 1) \o <<UserOf(j)>>

\* the messages that belong to conversation c: the prompts of its requests
\* and the replies given to them
MessagesOf(c) ==
    {UserOf(n) : n \in {x \in LineNos : Sent(x) # {} /\ ConvOf(x) = c}}
    \cup {Message("model", output[k].text) :
            k \in {x \in 1..Len(output) :
                      /\ output[x].kind = "result"
                      /\ Sent(output[x].line) # {}
                      /\ ConvOf(output[x].line) = c}}

\* every stored history and every request holds messages of its own
\* conversation only; a request without conversationId holds its prompt only
IsolatedContents ==
    /\ \A c \in DOMAIN conversations :
           \A i \in 1..Len(conversations[c]) : conversations[c][i] \in MessagesOf(c)
    /\ \A n \in LineNos : \A k \in Sent(n) :
           IF Truthy(ConvOf(n))
           THEN \A i \in 1..Len(remoteCalls[k].contents) :
                    remoteCalls[k].contents[i] \in MessagesOf(ConvOf(n))
           ELSE remoteCalls[k].contents = <<UserOf(n)>>

\* the history of c changes only in a step that ends a remote call made for c
IsolatedUpdate ==
    \A c \in DOMAIN conversations' :
        (c \notin DOMAIN conversations \/ conversations'[c] # conversations[c]) =>
            \E p \in pending :
                /\ p \notin pending'
                /\ p.stage = "remote"
                /\ p.api = "generateContent"
                /\ p.conv = c

\* C24: conversation histories are isolated: a generate_text call with
\* conversationId A changes no history but A's, the request it sends holds
\* messages of A only, and a call without conversationId changes no history.
C24_HistoriesIsolated == []IsolatedContents /\ [][IsolatedUpdate]_vars

\* both conversations hold a history and a call without conversationId was
\* served
C24_Witness ==
    /\ DOMAIN conversations = {"c1", "c2"}
    /\ Message("user", <<121, 111>>) \in MessagesOf("c1")
    /\ \E n \in LineNos : Sent(n) # {} /\ ConvOf(n) = UNDEF /\ Succeeded(n)

\* a step that writes a Failure leaves every history as it was, and a
\* history changes only in a step that writes the Success of a remote call
HistoryChangesOnSuccessOnly ==
    /\ (Len(output') > Len(output) /\ Last(output').kind = "error") =>
           conversations' = conversations
    /\ conversations' # conversations =>
           /\ Len(output') = Len(output) + 1
           /\ Last(output').kind = "result"
           /\ \E p \in pending :
                  /\ p \notin pending'
                  /\ p.stage = "remote"
                  /\ p.line = Last(output').line

\* C25: a generate_text call that ends in a Failure leaves the stored history
\* of its conversation as it was; the history changes only after the remote
\* call has succeeded.
C25_FailureKeepsHistory == [][HistoryChangesOnSuccessOnly]_vars

\* the second call of conversation c1 failed at the remote service, a third
\* failed validation, and the history is still the first exchange
C25_Witness ==
    \E i, j, m \in LineNos :
        /\ i < j /\ j < m
        /\ ConvOf(i) = "c1" /\ ConvOf(j) = "c1" /\ ConvOf(m) = "c1"
        /\ Succeeded(i)
        /\ Sent(j) # {}
        /\ \E k \in ResponsesTo(j) : output[k].kind = "error"
        /\ Sent(m) = {} /\ received[m].valid /\ ~received[m].limited
        /\ \E k \in ResponsesTo(m) : output[k].kind = "error"
        /\ conversations["c1"] = <<UserOf(i), ModelOf(i)>>

\* a step that takes in a line which is blank, is not JSON or fails envelope
\* validation changes neither the limiter's map nor a history, and starts no
\* handler and no remote call
RejectedLineHasNoEffect ==
    (Len(received') = Len(received) + 1 /\ ~Last(received').valid) =>
        /\ requests' = requests
        /\ conversations' = conversations
        /\ remoteCalls' = remoteCalls
        /\ pending' = pending

\* C26: a line rejected by JSON parsing or by envelope validation has no side
\* effect: the limiter's count is not incremented, no history changes and no
\* remote call is made.
C26_RejectedLineHasNoEffect == [][RejectedLineHasNoEffect]_vars

\* after one accepted request, a line that is not JSON and a malformed
\* envelope, the limiter has counted one request
C26_Witness ==
    /\ rateLimitEnabled
    /\ Len(received) = 3
    /\ received[1].valid /\ ~received[1].limited
    /\ received[2].line.parse = "garbage"
    /\ received[3].line.parse = "json" /\ received[3].line.shape = "object"
    /\ ~received[3].valid
    /\ now = 0
    /\ requests["default"].count = 1
    /\ remoteCalls = <<>>

\* line n passed validation and the rate limiter and went to handleRequest
Dispatched(n) == received[n].valid /\ ~received[n].limited

\* no remote call was made for line n and none is under way
NoRemoteCall(n) ==
    /\ \A k \in 1..Len(remoteCalls) : remoteCalls[k].line # n
    /\ \A p \in pending : p.line = n => p.stage # "remote"

\* line n is answered once, by a Failure with the given code and the id of
\* the request
AnsweredWith(n, code) ==
    /\ Cardinality(ResponsesTo(n)) <= 1
    /\ Settled(n) => Cardinality(ResponsesTo(n)) = 1
    /\ \A k \in ResponsesTo(n) :
           /\ output[k].kind = "error"
           /\ output[k].code = code
           /\ output[k].id = received[n].line.id

\* line n is a tools/call to the given tool that reached the tool's handler
CallsTool(n, tool) ==
    /\ Dispatched(n)
    /\ received[n].line.method = "tools/call"
    /\ received[n].line.tool = tool

\* the arguments of a tools/call break the schema ToolSchemas declares for
\* the tool
BreaksSchema(l) ==
    CASE l.tool = "generate_text" -> ~ValidGenerateText(l.args)
      [] l.tool = "analyze_image" -> ~ValidAnalyzeImage(l.args)
      [] l.tool \in {"count_tokens", "embed_text"} -> ~ValidTextArgs(l.args)
      [] OTHER -> FALSE

\* C16: every Failure caused by a validation failure, be it an envelope
\* that validateMCPRequest rejects or generate_text arguments that
\* validateToolParams rejects, carries code -32602.
C16_ValidationFailuresUse32602 ==
    \A n \in LineNos :
        (\/ received[n].line.parse = "json" /\ ~received[n].valid
         \/ CallsTool(n, "generate_text") /\ BreaksSchema(received[n].line)) =>
            \A k \in ResponsesTo(n) :
                output[k].kind = "error" /\ output[k].code = -32602

\* C17: a request the rate limiter rejects is answered with a Failure with
\* code -32002 and the request's id, and no handler runs for it: no remote
\* call is made.
C17_RateLimitedAnsweredUnhandled ==
    \A n \in LineNos :
        received[n].limited => AnsweredWith(n, -32002) /\ NoRemoteCall(n)

\* C18: a tools/call to generate_text, analyze_image, count_tokens or
\* embed_text whose arguments break the tool's schema is answered with a
\* Failure and no remote call is made for it.
C18_SchemaBreachNeverCallsRemote ==
    \A n \in LineNos :
        (/\ Dispatched(n)
         /\ received[n].line.method = "tools/call"
         /\ BreaksSchema(received[n].line)) =>
            /\ NoRemoteCall(n)
            /\ \A k \in ResponsesTo(n) : output[k].kind = "error"

\* C19: an analyze_image call whose arguments have neither imageUrl nor
\* imageBase64 ends in one Failure response and makes no remote call.
C19_ImageRequired ==
    \A n \in LineNos :
        (/\ CallsTool(n, "analyze_image")
         /\ ~Truthy(received[n].line.args.imageUrl)
         /\ ~Truthy(received[n].line.args.imageBase64)) =>
            /\ NoRemoteCall(n)
            /\ Cardinality(ResponsesTo(n)) <= 1
            /\ Settled(n) => Cardinality(ResponsesTo(n)) = 1
            /\ \A k \in ResponsesTo(n) :
                   output[k].kind = "error" /\ output[k].id = received[n].line.id

\* an analyze_image call with defined arguments but no image was answered
\* with a Failure, and another one, with an image, went to the remote service
C19_Witness ==
    \E n, m \in LineNos :
        /\ CallsTool(n, "analyze_image")
        /\ received[n].line.args = ImageArgs(TextHi, "", UNDEF)
        /\ \E k \in ResponsesTo(n) : output[k] = Failure(n, SEVEN, -32603)
        /\ CallsTool(m, "analyze_image")
        /\ \E k \in 1..Len(remoteCalls) : remoteCalls[k].line = m

\* C20: a request that reaches the dispatcher with a method that is not one
\* of the six known ones is answered with Failure -32601, and so is a
\* tools/call whose tool name is not one of the six tools (a tools/call
\* without params included); neither makes a remote call.
C20_UnknownMethodOrTool ==
    \A n \in LineNos :
        LET l == received[n].line
        IN /\ (Dispatched(n) /\ l.method \notin Methods) =>
                  /\ Cardinality(ResponsesTo(n)) = 1
                  /\ AnsweredWith(n, -32601)
                  /\ NoRemoteCall(n)
           /\ (Dispatched(n) /\ l.method = "tools/call" /\ l.tool \notin ToolNames) =>
                  /\ AnsweredWith(n, -32601)
                  /\ NoRemoteCall(n)

C20_Witness ==
    \E n, m, j \in LineNos :
        /\ Dispatched(n)
        /\ received[n].line.method = "bogus/method"
        /\ \E k \in ResponsesTo(n) : output[k] = Failure(n, SEVEN, -32601)
        /\ CallsTool(m, "bogus_tool")
        /\ \E k \in ResponsesTo(m) : output[k] = Failure(m, SEVEN, -32601)
        /\ CallsTool(j, UNDEF)
        /\ \E k \in ResponsesTo(j) : output[k] = Failure(j, SEVEN, -32601)

\* the remote calls made while handling line n
RemoteCallsOf(n) == {k \in 1..Len(remoteCalls) : remoteCalls[k].line = n}

AtMostOneRemoteCall ==
    \A n \in LineNos :
        /\ Cardinality(RemoteCallsOf(n)) <= 1
        /\ Cardinality({p \in pending : p.line = n}) <= 1

\* the step in which a remote call ends writes the response of its request
\* and makes no further remote call; a history changes only in such a step,
\* for a request that had no response yet
RemoteCallEndsHandling ==
    /\ \A p \in pending :
           (p.stage = "remote" /\ p \notin pending') =>
               /\ ResponsesTo(p.line) = {}
               /\ Len(output') = Len(output) + 1
               /\ Last(output').line = p.line
               /\ Last(output').id = p.id
               /\ remoteCalls' = remoteCalls
    /\ conversations' # conversations =>
           \E p \in pending : p.stage = "remote" /\ p \notin pending'

C30_OvertakenOnlyWhileAwaiting ==
    \A k1, k2 \in 1..Len(output) :
        (k1 < k2 /\ output[k1].line > output[k2].line) =>
            /\ received[output[k2].line].line.method \in {"tools/call", "resources/read"}
            /\ output[k2].id = received[output[k2].line].line.id
            /\ output[k1].id = received[output[k1].line].line.id

\* line 1 is a generate_text call that waited for the remote service while
\* line 2, an initialize request with id 0, was accepted and answered; line 1
\* was answered afterwards with its own id
C30_Witness ==
    /\ Len(output) = 2
    /\ output[1].line = 2
    /\ output[2].line = 1
    /\ CallsTool(1, "generate_text")
    /\ Sent(1) # {}
    /\ Dispatched(2)
    /\ received[2].line.method = "initialize"
    /\ output[1] = Success(2, ZERO, UndefText)
    /\ output[2].kind = "result"
    /\ output[2].id = SEVEN

----------------------------------------------------------------------------
(* Properties of the rate limiter *)

\* C5: with the limiter enabled and maxRequests = N >= 1, the first N calls
\* of a key inside one window are accepted and every later call inside that
\* window throws RateLimitError.
C5_FirstNAcceptedRestRejected ==
    (rateLimitEnabled /\ maxRequests >= 1 /\ lastCheck.ordinal >= 1) =>
        (lastCheck.threw <=> lastCheck.ordinal > maxRequests)

C5_Witness ==
    /\ rateLimitEnabled
    /\ maxRequests = 2
    /\ lastCheck.key = "other"
    /\ lastCheck.ordinal = maxRequests + 2
    /\ lastCheck.threw
    /\ lastCheck.at > 0

\* C6: a call made at now >= resetTime of the key's entry succeeds, even
\* when the window was exhausted, and leaves count = 1 and
\* resetTime = now + windowMs.
C6_ExpiredWindowReplaced ==
    (lastCheck.hadEntry /\ lastCheck.at >= lastCheck.before.resetTime) =>
        /\ ~lastCheck.threw
        /\ lastCheck.hasEntry
        /\ lastCheck.after.count = 1
        /\ lastCheck.after.resetTime = lastCheck.at + WindowMs

C6_Witness ==
    /\ maxRequests >= 1
    /\ lastCheck.hadEntry
    /\ lastCheck.before.count = maxRequests
    /\ lastCheck.at = lastCheck.before.resetTime
    /\ lastCheck.after.count = 1

\* C23: with rate limiting disabled every checkLimit call succeeds, for
\* every key and any number of calls, and no entry is created or changed.
C23_DisabledLimiterPasses ==
    ~rateLimitEnabled =>
        /\ ~lastCheck.threw
        /\ ~lastCheck.hasEntry
        /\ DOMAIN requests = {}

C23_Witness ==
    /\ ~rateLimitEnabled
    /\ maxRequests = 0
    /\ lastCheck.key = "other"
    /\ lastCheck.ordinal = MaxReq + 2
    /\ window["default"].calls >= 2
    /\ lastCheck.at > 0

\* C27: the seconds a rejection reports are ceil((resetTime - now) / 1000):
\* the least whole number of seconds that covers the rest of the window, at
\* least 1 and at most ceil(windowMs / 1000).
C27_ResetInSeconds ==
    lastCheck.threw =>
        LET rest == lastCheck.before.resetTime - lastCheck.at
        IN /\ lastCheck.resetIn * 1000 >= rest
           /\ (lastCheck.resetIn - 1) * 1000 < rest
           /\ lastCheck.resetIn >= 1
           /\ (lastCheck.resetIn - 1) * 1000 < WindowMs

C27_Witness ==
    /\ lastCheck.threw
    /\ lastCheck.before.resetTime - lastCheck.at = TickMs
    /\ lastCheck.resetIn = 1
    /\ lastCheck.key = "other"

\* a sweep: the only step that changes the map without a call being observed
SweepStep == requests' # requests /\ window' = window

\* the sweep removes exactly the entries whose window has ended
SweepExact ==
    SweepStep =>
        /\ DOMAIN requests' = {k \in DOMAIN requests : now < requests[k].resetTime}
        /\ \A k \in DOMAIN requests' : requests'[k] = requests[k]

\* the limiter and its unswept twin answer the next call alike, for every
\* key, and answered the latest getUsage call alike
SweepUnobservable ==
    /\ lastUsage.usage = lastUsage.twin
    /\ \A k \in Identifiers :
           LET a == checkLimit(requests, k, now, rateLimitEnabled, maxRequests)
               b == checkLimit(unswept, k, now, rateLimitEnabled, maxRequests)
           IN /\ a.threw = b.threw
              /\ a.resetIn = b.resetIn
              /\ EntryOr(a.requests, k) = EntryOr(b.requests, k)
              /\ getUsage(requests, k, now, maxRequests)
                     = getUsage(unswept, k, now, maxRequests)

\* C28: the sweep removes exactly the entries with now >= resetTime and
\* leaves the others unchanged, and no checkLimit outcome and no getUsage
\* result depends on whether sweeps ran.
C28_SweepExactAndUnobservable == [][SweepExact]_vars /\ []SweepUnobservable

\* "other" was swept while "default" was kept, and calls were answered after
C28_Witness ==
    /\ "other" \in DOMAIN unswept
    /\ "other" \notin DOMAIN requests
    /\ "default" \in DOMAIN requests
    /\ now < requests["default"].resetTime
    /\ lastCheck.key = "default"
    /\ lastCheck.threw
    /\ lastCheck.at >= unswept["other"].resetTime
    /\ lastUsage.key = "other"
    /\ lastUsage.at = now

\* C33: with the limiter enabled, every stored entry has
\* 1 <= count <= maxRequests and a key has at most maxRequests accepted
\* calls between two window resets, for every maxRequests, 0 included (where
\* no call is accepted).
C33_CountWithinLimit ==
    rateLimitEnabled =>
        /\ \A k \in DOMAIN requests :
               1 <= requests[k].count /\ requests[k].count <= maxRequests
        /\ (lastCheck.ordinal >= 1 /\ ~lastCheck.threw) =>
               lastCheck.ordinal <= maxRequests

\* a checkLimit call for key k: the observation of k's window moves on
CheckStep(k) == window'[k] # window[k] /\ window'[k] # NoWindow

\* a rejected call changes no entry, and a call changes no other key's entry
CheckLimitFrame ==
    \A k \in Identifiers :
        CheckStep(k) =>
            /\ lastCheck'.key = k
            /\ lastCheck'.threw => requests' = requests
            /\ \A j \in Identifiers \ {k} :
                   /\ j \in DOMAIN requests' <=> j \in DOMAIN requests
                   /\ EntryOr(requests', j) = EntryOr(requests, j)

\* C34: a rejected checkLimit call leaves the key's entry as it was (same
\* count, same resetTime), and a checkLimit call on one key never changes
\* the entry of another key.
C34_RejectionChangesNothing == [][CheckLimitFrame]_vars

\* "default" was rejected twice in its window, one tick apart, and its
\* entry still has the count and the end it had, while "other" has an entry
\* of its own
C34_Witness ==
    /\ rateLimitEnabled
    /\ maxRequests = 1
    /\ lastCheck.key = "default"
    /\ lastCheck.threw
    /\ lastCheck.ordinal = 3
    /\ lastCheck.at = TickMs
    /\ lastCheck.hadEntry /\ lastCheck.hasEntry
    /\ lastCheck.after = lastCheck.before
    /\ requests["default"] = [count |-> 1, resetTime |-> WindowMs]
    /\ "other" \in DOMAIN requests
    /\ requests["other"].resetTime = TickMs + WindowMs

RECURSIVE SumSeq(_)
SumSeq(q) == IF q = <<>> THEN 0 ELSE q[1] + SumSeq(Tail(q))

\* C35: the limiter is a sliding window: with maxRequests >= 1, the calls of
\* one key accepted inside any interval of windowMs milliseconds, wherever
\* it starts, are at most maxRequests.
C35_SlidingWindow ==
    (rateLimitEnabled /\ maxRequests >= 1) =>
        \A k \in Identifiers : SumSeq(accepted[k]) <= maxRequests

----------------------------------------------------------------------------
(* Properties of withRetry *)

RetryableFailures == {Rejects(ErrUnavailable), Rejects(ErrTooMany)}
FatalFailures == {Rejects(ErrInvalidArgument), Rejects(ErrValidation)}

\* how many invocations fail with a retryable error before the first that
\* does not
RECURSIVE LeadingRetryable(_, _)
LeadingRetryable(script, i) ==
    IF i \in DOMAIN script /\ script[i] \in RetryableFailures
    THEN 1 + LeadingRetryable(script, i + 1)
    ELSE 0

\* invocation j of the operation has settled
InvocationSettled(j) ==
    \/ retry.invocations > j
    \/ retry.invocations = j /\ retry.pc # "awaiting"

\* C9: an operation that fails k < maxAttempts times with retryable errors
\* and then succeeds makes withRetry return the success value after exactly
\* k + 1 invocations.
C9_RetriesUntilSuccess ==
    LET k == LeadingRetryable(retry.script, 1)
    IN (/\ retry.pc # "idle"
        /\ k < retry.maxAttempts
        /\ k + 1 \in DOMAIN retry.script
        /\ retry.script[k + 1].ok) =>
            /\ retry.invocations <= k + 1
            /\ retry.pc # "rejected"
            /\ retry.pc = "resolved" =>
                   /\ retry.result = retry.script[k + 1].value
                   /\ retry.invocations = k + 1

C9_Witness ==
    /\ retry.pc = "resolved"
    /\ retry.maxAttempts = 3
    /\ retry.invocations = 3
    /\ retry.result = "success"
    /\ Len(retry.delays) = 2

\* C10: after an invocation fails with a non-retryable error the operation
\* is not invoked again, no backoff is waited, and withRetry rejects with
\* that error.
C10_FatalErrorNotRetried ==
    \A j \in DOMAIN retry.script :
        (InvocationSettled(j) /\ retry.script[j] \in FatalFailures) =>
            /\ retry.pc = "rejected"
            /\ retry.thrown = retry.script[j].error
            /\ retry.invocations = j
            /\ Len(retry.delays) = j - 1

C10_Witness ==
    /\ retry.pc = "rejected"
    /\ retry.maxAttempts = 3
    /\ retry.invocations = 1
    /\ retry.thrown = ErrValidation
    /\ retry.delays = <<>>

\* C11: when every invocation fails with a retryable error the operation is
\* invoked exactly maxAttempts times and withRetry rejects with the error of
\* the last invocation, unchanged.
C11_ExhaustedAttemptsRethrowLast ==
    LET m == retry.maxAttempts
    IN (/\ retry.pc # "idle"
        /\ \A i \in 1..m : retry.script[i] \in RetryableFailures) =>
            /\ retry.invocations <= m
            /\ retry.pc # "resolved"
            /\ retry.pc = "rejected" =>
                   /\ retry.invocations = m
                   /\ m >= 1 => retry.thrown = retry.script[m].error

C11_Witness ==
    /\ retry.pc = "rejected"
    /\ retry.maxAttempts = 3
    /\ retry.invocations = 3
    /\ retry.script[1] = Rejects(ErrUnavailable)
    /\ retry.script[2] = Rejects(ErrUnavailable)
    /\ retry.script[3] = Rejects(ErrTooMany)
    /\ retry.thrown = ErrTooMany
    /\ Len(retry.delays) = 2

\* C12: the delay the loop waits after failed attempt n (0-indexed) is
\* min(baseDelay * 2^n, 16000), and with baseDelay = 1000 it equals
\* getRetryDelay(n).
C12_LoopDelayIsCapped ==
    \A i \in 1..Len(retry.delays) :
        /\ retry.delays[i] = Min(retry.baseDelay * Pow2(i - 1), RetryDelayCeiling)
        /\ retry.baseDelay = DefaultBaseDelay =>
               retry.delays[i] = getRetryDelay(i - 1)

\* withRetry has returned or thrown
RetryEnded == retry.pc \in {"resolved", "rejected"}

\* the operation is invoked at most maxAttempts times, at least once before
\* withRetry ends when maxAttempts >= 1, and the end is the value of the
\* last invocation or the error it threw
RetryBounded ==
    /\ retry.invocations <= retry.maxAttempts
    /\ (RetryEnded /\ retry.maxAttempts >= 1) => retry.invocations >= 1
    /\ (retry.pc = "resolved") =>
           /\ retry.invocations >= 1
           /\ retry.script[retry.invocations].ok
           /\ retry.result = retry.script[retry.invocations].value
    /\ (retry.pc = "rejected" /\ retry.invocations >= 1) =>
           /\ ~retry.script[retry.invocations].ok
           /\ retry.thrown = retry.script[retry.invocations].error

\* the operation is invoked again only after a retryable failure
InvokedAgainAfterRetryable ==
    (retry'.invocations # retry.invocations /\ retry.invocations >= 1) =>
        /\ retry'.invocations = retry.invocations + 1
        /\ retry.script[retry.invocations] \in RetryableFailures

\* C39: when every invocation of the operation terminates withRetry
\* terminates: the operation is invoked at most maxAttempts times (at least
\* once when maxAttempts >= 1), again only after a retryable failure, and
\* withRetry ends by returning the value of a successful invocation or by
\* rejecting with the error thrown by the last invocation.
C39_WithRetryTerminates ==
    /\ <>RetryEnded
    /\ []RetryBounded
    /\ [][InvokedAgainAfterRetryable]_vars

\* two attempts allowed: the first failed with a retryable error, the
\* second succeeded after one backoff
C39_Witness ==
    /\ retry.pc = "resolved"
    /\ retry.maxAttempts = 2
    /\ retry.baseDelay = 10000
    /\ retry.invocations = 2
    /\ retry.script[1] = Rejects(ErrTooMany)
    /\ retry.result = "success"
    /\ Len(retry.delays) = 1

----------------------------------------------------------------------------
(* Properties of the utility functions *)

\* C13: getRetryDelay(n) is 1000, 2000, 4000, 8000, 16000 for n = 0..4 and
\* 16000 for every n >= 4; it never decreases as n grows and never exceeds
\* 16000.
C13_RetryDelayTable ==
    (call.fn = "getRetryDelay" /\ call.returned) =>
        LET n == call.attempt
        IN /\ n = 0 => call.delay = 1000
           /\ n = 1 => call.delay = 2000
           /\ n = 2 => call.delay = 4000
           /\ n = 3 => call.delay = 8000
           /\ n >= 4 => call.delay = 16000
           /\ call.delay <= 16000
           /\ \A m \in 0..n : getRetryDelay(m) <= call.delay

C13_Witness ==
    /\ call.fn = "getRetryDelay"
    /\ call.returned
    /\ call.attempt = 10
    /\ call.delay = 16000

\* C14: isRetryableError(e) is true exactly when e is a GeminiAPIError whose
\* original payload has status UNAVAILABLE, RESOURCE_EXHAUSTED or INTERNAL or
\* numeric code 429 or 503, and false for every other error.
C14_RetryableExactly ==
    (call.fn = "isRetryableError" /\ call.returned) =>
        (call.flag <=>
            /\ call.error.cls = "GeminiAPIError"
            /\ \/ call.error.status \in {"UNAVAILABLE", "RESOURCE_EXHAUSTED", "INTERNAL"}
               \/ call.error.code \in {429, 503})

C14_Witness ==
    /\ call.fn = "isRetryableError"
    /\ call.returned
    /\ call.error = Err("GeminiAPIError", UNDEF, 503)
    /\ call.flag

\* C15 as stated: validateMCPRequest accepts a message if and only if it is
\* an object with jsonrpc "2.0", a non-empty string method and an id that is
\* neither undefined nor null.
C15_AcceptsIffNonEmptyMethod ==
    (call.fn = "validateMCPRequest" /\ call.returned) =>
        (call.flag <=>
            /\ call.request.shape = "object"
            /\ call.request.jsonrpc = "2.0"
            /\ IsString(call.request.method)
            /\ call.request.method # ""
            /\ call.request.id \notin {UNDEF, NULL})

\* C15 amended: validateMCPRequest accepts a message if and only if it is an
\* object with jsonrpc "2.0", a string method (the empty string included)
\* and an id that is neither undefined nor null.
C15_AcceptsIffStringMethod ==
    (call.fn = "validateMCPRequest" /\ call.returned) =>
        (call.flag <=>
            /\ call.request.shape = "object"
            /\ call.request.jsonrpc = "2.0"
            /\ IsString(call.request.method)
            /\ call.request.id \notin {UNDEF, NULL})

C15_Witness ==
    /\ call.fn = "validateMCPRequest"
    /\ call.returned
    /\ call.request.method = ""
    /\ call.request.id = ZERO
    /\ call.flag

\* the names of all entries of the capability table, in its order
AllModelNames == Names(GEMINI_MODELS)

\* C21: list_models returns exactly the entries the filter selects: with
\* "thinking" the entries marked thinking:true, with "all" or no filter every
\* entry, with a filter value it does not know the whole list; the count
\* equals the length of the list.
C21_ListModelsFilter ==
    (call.fn = "listModels" /\ call.returned) =>
        /\ call.filter = "thinking" =>
               /\ call.list = <<"gemini-2.5-pro", "gemini-2.5-flash",
                                "gemini-2.5-flash-lite">>
               /\ \A i \in 1..Len(GEMINI_MODELS) :
                      GEMINI_MODELS[i].thinking <=>
                          \E j \in 1..Len(call.list) :
                              call.list[j] = GEMINI_MODELS[i].name
        /\ call.filter \in {"all", UNDEF} => call.list = AllModelNames
        /\ call.filter \notin {"all", "thinking", "vision", "grounding",
                                "json_mode"} => call.list = AllModelNames
        /\ call.count = Len(call.list)
        /\ ~call.threw

C21_Witness ==
    /\ call.fn = "listModels"
    /\ call.returned
    /\ call.filter = "bogus"
    /\ call.count = 8

\* C22: sanitizeString throws when the input is not a string or is longer
\* than maxLength; otherwise it returns the input without the characters
\* 0x00-0x08, 0x0B, 0x0C, 0x0E-0x1F and 0x7F, every other character (tab and
\* newline included) kept in its order.
C22_SanitizeRemovesControlChars ==
    (call.fn = "sanitizeString" /\ call.returned) =>
        /\ call.threw <=> (call.input = UndefText \/ Len(call.input) > call.maxLength)
        /\ ~call.threw =>
               call.text = SelectSeq(call.input,
                               LAMBDA c : c \notin (0..8) \cup {11, 12, 127} \cup (14..31))

C22_Witness ==
    /\ call.fn = "sanitizeString"
    /\ call.returned
    /\ call.input = <<9, 11>>
    /\ call.maxLength = 2
    /\ call.text = <<9>>

----------------------------------------------------------------------------
(* Further properties of the server and of generateText *)

\* user, model, user, model, ...: even length, user first, model last
Alternates(h) ==
    /\ Len(h) % 2 = 0
    /\ \A i \in 1..Len(h) : h[i].role = IF i % 2 = 1 THEN "user" ELSE "model"

\* C36: every stored conversation history has even length and alternates
\* the roles user, model, user, model, ..., whatever mix of sequential and
\* overlapping generate_text calls produced it.
C36_HistoryAlternates ==
    \A c \in DOMAIN conversations : Alternates(conversations[c])

\* one call of "c1" was answered, then two more overlapped and were answered
C36_Witness ==
    /\ Len(received) = 3
    /\ \A n \in LineNos : ConvOf(n) = "c1" /\ Succeeded(n)
    /\ ~received[2].overlap
    /\ received[3].overlap
    /\ Len(conversations["c1"]) = 10

\* the messages of the stored history of conversation c
StoredMessages(c) ==
    {GetHistory(conversations, c)[i] : i \in 1..Len(GetHistory(conversations, c))}

\* once two calls of one conversation, the later accepted while a call of
\* the conversation awaited the remote service, have both succeeded, the
\* stored history holds the user message and the reply of each
NoUpdateLost ==
    \A i, j \in LineNos :
        (/\ i < j
         /\ received[j].overlap
         /\ Sent(i) # {} /\ Sent(j) # {}
         /\ ConvOf(i) = ConvOf(j)
         /\ Succeeded(i) /\ Succeeded(j)) =>
            {UserOf(i), ModelOf(i), UserOf(j), ModelOf(j)}
                \subseteq StoredMessages(ConvOf(j))

\* the request of a call accepted during another call of its conversation
\* starts with the history stored at that moment
OverlappingRequestCarriesHistory ==
    (/\ Len(received') = Len(received) + 1
     /\ Last(received').overlap
     /\ Len(remoteCalls') = Len(remoteCalls) + 1) =>
        LET h == GetHistory(conversations, Last(received').line.args.conversationId)
            c == Last(remoteCalls').contents
        IN /\ Len(c) = Len(h) + 1
           /\ SubSeq(c, 1, Len(h)) = h

\* C37: when two generate_text calls of one conversation overlap no update
\* is lost: after both have completed the stored history contains each
\* call's user message and each call's reply, and the request of the second
\* call contains every message of the history stored when it was accepted.
C37_NoLostUpdate == []NoUpdateLost /\ [][OverlappingRequestCarriesHistory]_vars

\* the first call of "c1" was answered; the third was accepted, with that
\* history in its request, while the second awaited the remote service; the
\* second was answered last, and the two differ in prompt and reply
C37_Witness ==
    /\ Len(received) = 3
    /\ \A n \in LineNos : ConvOf(n) = "c1" /\ Succeeded(n)
    /\ received[3].overlap
    /\ \E k \in Sent(3) : Len(remoteCalls[k].contents) = 3
    /\ UserOf(2) # UserOf(3)
    /\ ModelOf(2) # ModelOf(3)
    /\ output[2].line = 3
    /\ output[3].line = 2

\* no request waits for another: whatever else is under way, the handling
\* of a suspended request can go on
NeverBlocked == \A p \in pending : ENABLED Settle(p.line)

\* C31: every request that passed envelope validation and the rate limiter
\* is eventually answered when each remote call returns or fails: none is
\* cancelled, dropped or left waiting on another request.
C31_DispatchedEventuallyAnswered ==
    /\ \A n \in 1..MaxLines :
           (n \in LineNos /\ Dispatched(n)) ~> (ResponsesTo(n) # {})
    /\ []NeverBlocked

\* three requests were under way at once, two of them at the remote
\* service, and each has its answer, the one accepted first answered last
C31_Witness ==
    /\ Len(received) = 3
    /\ \A n \in LineNos : Dispatched(n) /\ Cardinality(ResponsesTo(n)) = 1
    /\ pending = {}
    /\ RemoteCallsOf(1) # {} /\ RemoteCallsOf(2) # {}
    /\ Len(remoteCalls) = 2
    /\ output[1].line = 3
    /\ output[2].line = 2
    /\ output[3].line = 1
    /\ output[3].kind = "error"

\* the parameter was supplied and sent as supplied, or absent and the
\* documented default was sent
SentOrDefault(supplied, sent, fallback) ==
    IF supplied # NoNumber THEN sent = supplied ELSE sent = fallback

\* C38: for every generate_text call with valid parameters the
\* temperature, maxOutputTokens, topK and topP of the remote request are the
\* values the caller supplied, for every value the schema accepts
\* (temperature 0 and topP 0 included), and the defaults 0.7, 2048, 40 and
\* 0.95 are used only for absent parameters.
C38_SamplingParametersPassed ==
    (call.fn = "generationConfig" /\ call.returned /\ ~call.threw) =>
        /\ SentOrDefault(call.given.temperature, call.config.temperature, 7)
        /\ SentOrDefault(call.given.maxTokens, call.config.maxOutputTokens, 2048)
        /\ SentOrDefault(call.given.topK, call.config.topK, 40)
        /\ SentOrDefault(call.given.topP, call.config.topP, 95)

\* C32: the Failure that answers a failed remote call carries a numeric
\* code and, in its data field, the error payload of the remote service.
C32_FailureCarriesUpstreamPayload ==
    \A k \in 1..Len(output) :
        (output[k].kind = "error" /\ RemoteCallsOf(output[k].line) # {}) =>
            /\ output[k].code = -32603
            /\ output[k].data = UpstreamPayload

====
